---- MODULE Spec2Model ----
(***************************************************************************)
(* A model of kundajelab/cultivator as the repository stands: one file,    *)
(* setup.py, whose execution imports setuptools.setup and calls it once    *)
(* with literal keyword arguments.  The model runs the script statement by *)
(* statement in an arbitrary environment, then follows the declared        *)
(* metadata through the two places where it is consumed: the check of the  *)
(* install_requires specifier against the numpy found in the environment,  *)
(* and the installation of whatever commands and data the call declares.   *)
(***************************************************************************)
EXTENDS Integers, Sequences, FiniteSets, TLC

VARIABLES pc, env, globals, calls, reqOk, commands, dataFiles

vars == <<pc, env, globals, calls, reqOk, commands, dataFiles>>

(***************************************************************************)
(* Bounds of the environments explored.  A numpy release is a triple       *)
(* major.minor.patch; the ranges straddle 1.14.2 on every component.       *)
(***************************************************************************)
MaxMajor == 2
MaxMinor == 15
MaxPatch == 3

Versions == (0..MaxMajor) \X (0..MaxMinor) \X (0..MaxPatch)

\* The setup.py commands a run may be started with, and the platforms.
Commands == {"install", "sdist"}
Platforms == {"linux", "darwin"}

Envs == [numpy : Versions, command : Commands, platform : Platforms]

(***************************************************************************)
(* The repository: its files (paths as sequences of components) and the    *)
(* statements of setup.py in order.                                        *)
(***************************************************************************)
RepoFiles == { <<"setup.py">> }

Program ==
  << [kind |-> "import", name |-> "setup", first |-> 2, last |-> 2],
     [kind |-> "call",   name |-> "setup", first |-> 4, last |-> 16] >>

\* Statement kinds that would define something, branch, loop or keep state.
LogicKinds == {"def", "class", "if", "for", "while", "try", "with", "assign"}

\* A variant of the requirement literal with an exclusive bound.
NumpyRequirement_Exclusive ==
  << "n", "u", "m", "p", "y", " ", ">", " ",
     "1", ".", "1", "4", ".", "2" >>

(***************************************************************************)
(* The requirement literal of line 14, character by character.             *)
(***************************************************************************)
NumpyRequirement ==
  << "n", "u", "m", "p", "y", " ", ">", "=", " ",
     "1", ".", "1", "4", ".", "2" >>

\* The description literal of line 12.
Description ==
  "A tool for generating covariate-matched and diversity-maximizing subsets. Generally useful, for built with genomic applications in mind."

(***************************************************************************)
(* Variants of the call: a bumped version, a version computed from the     *)
(* platform, an SPDX identifier as the license, and a declared script.     *)
(***************************************************************************)
SetupArgs_VersionBump(e) ==
  [ name             |-> "cultivator",
    version          |-> "0.0.1",
    author           |-> "Jacob Schreiber",
    author_email     |-> "jmschreiber91@gmail.com",
    packages         |-> << "cultivator" >>,
    url              |-> "http://pypi.python.org/pypi/cultivator/",
    license          |-> "LICENSE.txt",
    description      |-> Description,
    install_requires |-> << NumpyRequirement >> ]

SetupArgs_EnvVersion(e) ==
  [ name             |-> "cultivator",
    version          |-> IF e.platform = "darwin" THEN "0.0.0.post1" ELSE "0.0.0",
    author           |-> "Jacob Schreiber",
    author_email     |-> "jmschreiber91@gmail.com",
    packages         |-> << "cultivator" >>,
    url              |-> "http://pypi.python.org/pypi/cultivator/",
    license          |-> "LICENSE.txt",
    description      |-> Description,
    install_requires |-> << NumpyRequirement >> ]

SetupArgs_LicenseId(e) ==
  [ name             |-> "cultivator",
    version          |-> "0.0.0",
    author           |-> "Jacob Schreiber",
    author_email     |-> "jmschreiber91@gmail.com",
    packages         |-> << "cultivator" >>,
    url              |-> "http://pypi.python.org/pypi/cultivator/",
    license          |-> "MIT",
    description      |-> Description,
    install_requires |-> << NumpyRequirement >> ]

SetupArgs_WithScripts(e) ==
  [ name             |-> "cultivator",
    version          |-> "0.0.0",
    author           |-> "Jacob Schreiber",
    author_email     |-> "jmschreiber91@gmail.com",
    packages         |-> << "cultivator" >>,
    url              |-> "http://pypi.python.org/pypi/cultivator/",
    license          |-> "LICENSE.txt",
    description      |-> Description,
    install_requires |-> << NumpyRequirement >>,
    scripts          |-> << "bin/cultivator" >> ]

(***************************************************************************)
(* The keyword arguments of the setup() call, lines 4-16, evaluated in     *)
(* environment e.  Every argument expression is a literal.                 *)
(***************************************************************************)
SetupArgs(e) ==
  [ name             |-> "cultivator",
    version          |-> "0.0.0",
    author           |-> "Jacob Schreiber",
    author_email     |-> "jmschreiber91@gmail.com",
    packages         |-> << "cultivator" >>,
    url              |-> "http://pypi.python.org/pypi/cultivator/",
    license          |-> "LICENSE.txt",
    description      |-> Description,
    install_requires |-> << NumpyRequirement >> ]

(***************************************************************************)
(* Reading a requirement string: name, comparison operator, release.       *)
(***************************************************************************)
OpChars == {"<", ">", "=", "!", "~"}
DigitChars == {"0", "1", "2", "3", "4", "5", "6", "7", "8", "9"}

DigitValue(c) ==
  CASE c = "0" -> 0 [] c = "1" -> 1 [] c = "2" -> 2 [] c = "3" -> 3
    [] c = "4" -> 4 [] c = "5" -> 5 [] c = "6" -> 6 [] c = "7" -> 7
    [] c = "8" -> 8 [] c = "9" -> 9

\* The characters of s with the blanks removed.
RECURSIVE StripBlanks(_)
StripBlanks(s) ==
  IF s = << >> THEN << >>
  ELSE IF Head(s) = " " THEN StripBlanks(Tail(s))
       ELSE << Head(s) >> \o StripBlanks(Tail(s))

\* The longest prefix of s whose characters all lie outside (inside) stop.
RECURSIVE TakeUntil(_, _)
TakeUntil(s, stop) ==
  IF s = << >> \/ Head(s) \in stop THEN << >>
  ELSE << Head(s) >> \o TakeUntil(Tail(s), stop)

RECURSIVE TakeWhile(_, _)
TakeWhile(s, keep) ==
  IF s = << >> \/ Head(s) \notin keep THEN << >>
  ELSE << Head(s) >> \o TakeWhile(Tail(s), keep)

Drop(s, n) == SubSeq(s, n + 1, Len(s))

\* The decimal number a sequence of digits writes, most significant first.
RECURSIVE ParseInt(_, _)
ParseInt(s, acc) ==
  IF s = << >> THEN acc
  ELSE ParseInt(Tail(s), 10 * acc + DigitValue(Head(s)))

\* The dot-separated components of a release, as numbers.
RECURSIVE ParseRelease(_)
ParseRelease(s) ==
  IF s = << >> THEN << >>
  ELSE LET digits == TakeWhile(s, DigitChars)
           rest   == Drop(s, Len(digits))
       IN  << ParseInt(digits, 0) >>
             \o (IF rest # << >> /\ Head(rest) = "."
                 THEN ParseRelease(Tail(rest)) ELSE << >>)

ParseRequirement(s) ==
  LET t      == StripBlanks(s)
      nm     == TakeUntil(t, OpChars)
      afterN == Drop(t, Len(nm))
      op     == TakeWhile(afterN, OpChars)
      ver    == Drop(afterN, Len(op))
  IN  [name |-> nm, op |-> op, release |-> ParseRelease(ver)]

(***************************************************************************)
(* Comparing releases: component by component from the left, a missing     *)
(* component counting as zero.  The result is -1, 0 or 1.                  *)
(***************************************************************************)
Component(r, i) == IF i <= Len(r) THEN r[i] ELSE 0

RECURSIVE CompareFrom(_, _, _)
CompareFrom(a, b, i) ==
  IF i > Len(a) /\ i > Len(b) THEN 0
  ELSE IF Component(a, i) < Component(b, i) THEN -1
  ELSE IF Component(a, i) > Component(b, i) THEN 1
  ELSE CompareFrom(a, b, i + 1)

CompareRelease(a, b) == CompareFrom(a, b, 1)

\* Whether release v meets the parsed requirement r.
Satisfies(v, r) ==
  LET c == CompareRelease(v, r.release)
  IN  CASE r.op = << ">", "=" >> -> c >= 0
        [] r.op = << ">" >>      -> c > 0
        [] r.op = << "<", "=" >> -> c <= 0
        [] r.op = << "<" >>      -> c < 0
        [] r.op = << "=", "=" >> -> c = 0
        [] r.op = << "!", "=" >> -> c # 0
        [] OTHER                 -> FALSE

\* The installed release of the distribution a requirement names.
InstalledRelease(e, r) ==
  IF r.name = << "n", "u", "m", "p", "y" >>
  THEN << e.numpy[1], e.numpy[2], e.numpy[3] >>
  ELSE << >>

RequirementsMet(e, dist) ==
  \A i \in 1..Len(dist.install_requires) :
     LET r == ParseRequirement(dist.install_requires[i])
     IN  Satisfies(InstalledRelease(e, r), r)

(***************************************************************************)
(* What a setup() call declares for installation besides its packages.     *)
(***************************************************************************)
CommandKeys == {"entry_points", "scripts", "console_scripts"}
DataKeys == {"data_files", "package_data"}

Declared(dist, keys) == { k \in keys : k \in DOMAIN dist }

\* Files of the repository that lie inside a declared package.
PackageModules(dist) ==
  { f \in RepoFiles :
      Len(f) > 1 /\ \E i \in 1..Len(dist.packages) : f[1] = dist.packages[i] }

(***************************************************************************)
(* The state machine.  pc counts the statements of setup.py executed so    *)
(* far; past the last statement the declared metadata is checked against   *)
(* the environment and installed.                                          *)
(***************************************************************************)
Init ==
  /\ pc = 1
  /\ env \in Envs
  /\ globals = {}
  /\ calls = << >>
  /\ reqOk = "unchecked"
  /\ commands = {}
  /\ dataFiles = {}

\* Line 2: from setuptools import setup.
ExecImport ==
  /\ pc \in 1..Len(Program)
  /\ Program[pc].kind = "import"
  /\ globals' = globals \cup {Program[pc].name}
  /\ pc' = pc + 1
  /\ UNCHANGED <<env, calls, reqOk, commands, dataFiles>>

\* Lines 4-16: the call of setup with its keyword arguments.
ExecCall ==
  /\ pc \in 1..Len(Program)
  /\ Program[pc].kind = "call"
  /\ Program[pc].name \in globals
  /\ calls' = Append(calls, SetupArgs(env))
  /\ pc' = pc + 1
  /\ UNCHANGED <<env, globals, reqOk, commands, dataFiles>>

\* The declared dependencies are checked against the environment.
CheckRequires ==
  /\ pc = Len(Program) + 1
  /\ calls # << >>
  /\ reqOk = "unchecked"
  /\ reqOk' = IF RequirementsMet(env, calls[Len(calls)])
              THEN "satisfied" ELSE "missing"
  /\ UNCHANGED <<pc, env, globals, calls, commands, dataFiles>>

\* The distribution is installed with what the call declared.
InstallDist ==
  /\ pc = Len(Program) + 1
  /\ reqOk # "unchecked"
  /\ env.command = "install"
  /\ commands' = Declared(calls[Len(calls)], CommandKeys)
  /\ dataFiles' = Declared(calls[Len(calls)], DataKeys)
  /\ pc' = pc + 1
  /\ UNCHANGED <<env, globals, calls, reqOk>>

Next == ExecImport \/ ExecCall \/ CheckRequires \/ InstallDist

Spec == Init /\ [][Next]_vars

(***************************************************************************)
(* Properties.                                                             *)
(***************************************************************************)
Finished == pc > Len(Program)

\* C1: setup() is called at most once, exactly once when the script has
\* run to its end, and every call declares the name 'cultivator' and the
\* version '0.0.0'; no call declares another name or version.
C1_NameAndVersion ==
  /\ Len(calls) <= 1
  /\ Finished => Len(calls) = 1
  /\ \A i \in 1..Len(calls) :
       calls[i].name = "cultivator" /\ calls[i].version = "0.0.0"

C1_Witness == Finished /\ Len(calls) = 1 /\ reqOk = "unchecked"

\* Release v is 1.14.2 or later, spelled out on the three components.
AtLeast_1_14_2(v) ==
  \/ v[1] > 1
  \/ v[1] = 1 /\ v[2] > 14
  \/ v[1] = 1 /\ v[2] = 14 /\ v[3] >= 2

\* C2: install_requires holds exactly one requirement, it names numpy, and
\* the numpy of the environment meets it exactly when it is 1.14.2 or later
\* (inclusive lower bound, no upper bound).
C2_NumpyLowerBound ==
  /\ \A i \in 1..Len(calls) :
       /\ Len(calls[i].install_requires) = 1
       /\ ParseRequirement(calls[i].install_requires[1]).name
            = << "n", "u", "m", "p", "y" >>
  /\ reqOk # "unchecked" =>
       (reqOk = "satisfied" <=> AtLeast_1_14_2(env.numpy))

C2_Witness == reqOk = "satisfied" /\ env.numpy = <<1, 14, 2>>

\* C3: the call passes none of entry_points, scripts, console_scripts,
\* data_files, package_data, so an installation sets up no command and no
\* data file.
C3_NoCommandLine ==
  /\ \A i \in 1..Len(calls) :
       Declared(calls[i], CommandKeys \cup DataKeys) = {}
  /\ commands = {}
  /\ dataFiles = {}

C3_Witness == pc = Len(Program) + 2 /\ env.command = "install" /\ commands = {}

\* C4: the license argument is the file reference 'LICENSE.txt', and no file
\* of that name is among the files of the repository.
C4_LicenseFile ==
  \A i \in 1..Len(calls) :
    /\ calls[i].license = "LICENSE.txt"
    /\ << calls[i].license >> \notin RepoFiles

C4_Witness ==
  /\ Len(calls) = 1
  /\ calls[1].license = "LICENSE.txt"
  /\ << "LICENSE.txt" >> \notin RepoFiles

\* C5: setup.py holds no defining, branching, looping or assigning
\* statement and binds only the imported name; a finished run has made
\* exactly one call; the arguments of that call are those the call evaluates
\* to in every environment; no file of the repository lies in the declared
\* package.
C5_NoLogic ==
  /\ \A i \in 1..Len(Program) : Program[i].kind \notin LogicKinds
  /\ Cardinality({ i \in 1..Len(Program) : Program[i].kind = "call" }) = 1
  /\ globals \subseteq {"setup"}
  /\ Finished => Len(calls) = 1
  /\ \A i \in 1..Len(calls) :
       /\ \A e \in Envs : calls[i] = SetupArgs(e)
       /\ PackageModules(calls[i]) = {}

C5_Witness == Finished /\ Len(calls) = 1 /\ env.platform = "darwin"

====
